---- MODULE Spec2Model ----
(***************************************************************************)
(* A model of the code documentation and tutorial generator: the main      *)
(* script of src/main.py and the functions it drives in doc_generator.py,  *)
(* tutorial_planner.py and script_generator.py.                            *)
(*                                                                         *)
(* Python values.  None is the empty tuple; a value of type Optional[str]  *)
(* that is not None is the one-element tuple holding the string.  Text the *)
(* model service produces (explanations, docstrings, overview, scripts) is *)
(* a sequence of one-character strings, so that str.strip is computed.     *)
(* A fixed literal of the program is kept as one piece of such a text.     *)
(* Identifiers (names, kinds, paths, source text) are atoms.               *)
(***************************************************************************)
EXTENDS Integers, Sequences, FiniteSets, TLC

VARIABLES
    pc,                     \* position of the run in the main script
    fs,                     \* the output directory: path -> file content
    individual_files,       \* names written under individual_files/
    deepseek_client,        \* "client" or "none" (main.py:41)
    exit_status,            \* status the process exited with, -1 while running
    project_name,           \* main.py:53
    code_elements,          \* the element list process_elements_for_docs mutates
    i,                      \* loop index of process_elements_for_docs
    documented_elements,    \* main.py:82
    readme_overview,        \* main.py:83
    save_outcome,           \* how the JSON dump of main.py:121-126 ended
    loaded_data_for_tutorial,   \* main.py:240
    tutorial_outline_structure, \* main.py:259; <<>> while not built
    outline_built,          \* whether build_tutorial_outline was called
    sec,                    \* index of the outline section the script loop is at
    sub,                    \* index of the sub-section inside a parent section
    full_script_parts,      \* script_generator.py:141
    log                     \* the model calls and delays issued so far, in order

vars == <<pc, fs, individual_files, deepseek_client, exit_status, project_name,
          code_elements, i, documented_elements, readme_overview, save_outcome,
          loaded_data_for_tutorial, tutorial_outline_structure, outline_built,
          sec, sub, full_script_parts, log>>

-----------------------------------------------------------------------------
(* Bounds of the model.                                                    *)

\* Longest element list handed to a function checked on its own.
MaxElems == 2

\* Longest element list handed to build_tutorial_outline checked on its own.
MaxLoaded == 3

\* Longest outline handed to generate_full_tutorial_script checked on its own.
MaxSections == 2

-----------------------------------------------------------------------------
(* Python values                                                           *)

None == <<>>

Some(s) == <<s>>

\* bool(v) for v an optional text: None and the empty text are falsy.
Truthy(v) == v # None /\ v[1] # <<>>

\* bool(v) for v an optional identifier: None and "" are falsy.
TruthyName(v) == v # None /\ v[1] # ""

\* dict.get(key) with the default None.
Get(d, k) == IF k \in DOMAIN d THEN d[k] ELSE None

\* d[key] = value on a dict: the key is added when it is new.
SetKey(d, k, v) == [x \in DOMAIN d \cup {k} |-> IF x = k THEN v ELSE d[x]]

Whitespace == {" ", "\n"}

RECURSIVE LStrip(_)
LStrip(t) == IF t # <<>> /\ Head(t) \in Whitespace THEN LStrip(Tail(t)) ELSE t

RECURSIVE RStrip(_)
RStrip(t) ==
    IF t # <<>> /\ t[Len(t)] \in Whitespace THEN RStrip(SubSeq(t, 1, Len(t) - 1)) ELSE t

\* str.strip()
Strip(t) == RStrip(LStrip(t))

\* Code-point order of the strings that occur as sort keys: "" sorts first,
\* upper case before lower case.
StrOrder == <<"", "C", "D", "a.py", "b.py">>

Rank(s) == CHOOSE n \in 1..Len(StrOrder) : StrOrder[n] = s

StrLess(a, b) == Rank(a) < Rank(b)

\* str.capitalize() on the element kinds.
Capitalize(t) ==
    CASE t = "function" -> "Function"
      [] t = "method" -> "Method"
      [] t = "class" -> "Class"
      [] t = "async function" -> "Async function"
      [] t = "async method" -> "Async method"
      [] OTHER -> t

-----------------------------------------------------------------------------
(* The model service                                                       *)

\* What client.chat.completions.create can do: raise (the empty tuple), or
\* return a message whose content is one of these raw texts.
RawTexts == {<<" ">>, <<"t", "\n">>}

ApiOutcomes == {<<>>} \cup {<<r>> : r \in RawTexts}

\* A call that yields the empty text, not None, when the service raises.
_make_api_call_empty_on_error(outcome) ==
    IF outcome = <<>> THEN Some(<<>>) ELSE Some(Strip(outcome[1]))

\* doc_generator.py:14-29: the stripped content, None when the call raised.
_make_api_call(outcome) ==
    IF outcome = <<>> THEN None ELSE Some(Strip(outcome[1]))

\* script_generator.py:19-34
_make_llm_call_for_script(outcome) ==
    IF outcome = <<>> THEN None ELSE Some(Strip(outcome[1]))

\* The log entry of one model call: its stage, what it is about, whether it
\* raised, and what the service did.
Call(stage, subject, outcome) == <<"call", stage, subject, outcome = <<>>, outcome>>

Delay == <<"delay">>

-----------------------------------------------------------------------------
(* Code elements (code_parser.py:95-103, 112-120, 129-137)                 *)

Elem(file, name, type, line, cls) ==
    [file_path |-> file, name |-> name, type |-> type, code |-> "src:" \o name,
     start_line |-> line, end_line |-> line + 1, class_name |-> cls]

ElemF == Elem("a.py", "f", "function", 1, None)

ElemV == Elem("a.py", "v", "variable", 2, None)

ElemC == Elem("a.py", "C", "class", 3, None)

ElemM == Elem("a.py", "m", "method", 4, Some("C"))

ElemG == Elem("b.py", "g", "async function", 5, None)

\* An element after process_elements_for_docs set its two fields.
Annotated(e, explanation, docstring) ==
    SetKey(SetKey(e, "explanation", explanation), "docstring", docstring)

\* A kind test that lets every kind through.
DocumentedKindsAndVariable ==
    {"function", "method", "async function", "async method", "class", "variable"}

\* A kind test that leaves the classes out.
DocumentedKindsWithoutClass == {"function", "method", "async function", "async method"}

\* The kinds process_elements_for_docs documents (doc_generator.py:162).
DocumentedKinds == {"function", "method", "async function", "async method", "class"}

\* Elements handed to process_elements_for_docs when it is checked on its own:
\* ElemV has a kind the function does not document.
ElementUniverse == {ElemF, ElemV, ElemC, ElemM, ElemG}

RECURSIVE SeqsUpTo(_, _)
SeqsUpTo(S, n) ==
    IF n = 0 THEN {<<>>}
    ELSE LET shorter == SeqsUpTo(S, n - 1)
         IN  shorter \cup {Append(q, x) : q \in shorter, x \in S}

-----------------------------------------------------------------------------
(* doc_generator.py                                                        *)

StartsWith(t, p) == Len(t) >= Len(p) /\ SubSeq(t, 1, Len(p)) = p

EndsWith(t, p) == Len(t) >= Len(p) /\ SubSeq(t, Len(t) - Len(p) + 1, Len(t)) = p

DropFirst(t, n) == SubSeq(t, n + 1, Len(t))

DropLast(t, n) == SubSeq(t, 1, Len(t) - n)

RECURSIVE LStripChar(_, _)
LStripChar(t, c) == IF t # <<>> /\ Head(t) = c THEN LStripChar(Tail(t), c) ELSE t

RECURSIVE RStripChar(_, _)
RStripChar(t, c) ==
    IF t # <<>> /\ t[Len(t)] = c THEN RStripChar(DropLast(t, 1), c) ELSE t

\* str.strip(chars) where chars repeats one character.
StripChar(t, c) == RStripChar(LStripChar(t, c), c)

\* The characters "`", '"' and "'" as pieces of a text.
Backtick == "<backtick>"

DoubleQuote == "<dquote>"

SingleQuote == "<squote>"

Fence == <<Backtick, Backtick, Backtick>>

PythonFence == Fence \o <<"p", "y", "t", "h", "o", "n", "\n">>

\* doc_generator.py:92-95
StripPythonFence(t) ==
    IF StartsWith(t, PythonFence)
    THEN LET u == DropFirst(t, Len(PythonFence))
         IN  IF EndsWith(u, <<"\n">> \o Fence) THEN DropLast(u, Len(Fence) + 1) ELSE u
    ELSE t

\* doc_generator.py:96-99
StripFence(t) ==
    IF StartsWith(t, Fence)
    THEN LET u == DropFirst(t, Len(Fence))
         IN  IF EndsWith(u, Fence) THEN DropLast(u, Len(Fence)) ELSE u
    ELSE t

\* doc_generator.py:102
StripQuotes(t) == Strip(StripChar(StripChar(Strip(t), DoubleQuote), SingleQuote))

\* doc_generator.py:31-60
generate_explanation_for_element(outcome) == _make_api_call(outcome)

\* doc_generator.py:62-106
generate_docstring_for_element(outcome) ==
    LET docstring == _make_api_call(outcome)
    IN  IF Truthy(docstring)
        THEN Some(StripQuotes(StripFence(StripPythonFence(docstring[1]))))
        ELSE docstring

\* An iteration that puts a rebuilt element in the place of the one it was
\* given: the line of the end and the owning class are not carried over.
ProcessElementRebuilding ==
    /\ pc = "process"
    /\ i <= Len(code_elements)
    /\ LET element == code_elements[i]
           rebuilt == Elem(element.file_path, element.name, element.type,
                           element.start_line, None)
       IN  IF element.type \in DocumentedKinds
           THEN \E o1 \in ApiOutcomes, o2 \in ApiOutcomes :
                  /\ code_elements' =
                         [code_elements EXCEPT ![i] =
                            Annotated(rebuilt, generate_explanation_for_element(o1),
                                      generate_docstring_for_element(o2))]
                  /\ log' = log \o <<Call("explanation", i, o1), Delay,
                                     Call("docstring", i, o2), Delay>>
           ELSE /\ code_elements' =
                     [code_elements EXCEPT ![i] = Annotated(rebuilt, None, None)]
                /\ log' = log
    /\ i' = i + 1
    /\ UNCHANGED <<pc, fs, individual_files, deepseek_client, exit_status,
                   project_name, documented_elements, readme_overview, save_outcome,
                   loaded_data_for_tutorial, tutorial_outline_structure,
                   outline_built, sec, sub, full_script_parts>>

\* An iteration that gives up on an element whose explanation call gave None:
\* the docstring call is not issued.
ProcessElementGivingUp ==
    /\ pc = "process"
    /\ i <= Len(code_elements)
    /\ LET element == code_elements[i]
       IN  IF element.type \in DocumentedKinds
           THEN \E o1 \in ApiOutcomes, o2 \in ApiOutcomes :
                  LET explanation == generate_explanation_for_element(o1)
                      docstring == IF explanation = None THEN None
                                   ELSE generate_docstring_for_element(o2)
                  IN  /\ code_elements' =
                           [code_elements EXCEPT ![i] =
                              SetKey(SetKey(element, "explanation", explanation),
                                     "docstring", docstring)]
                      /\ log' = IF explanation = None
                                THEN log \o <<Call("explanation", i, o1), Delay>>
                                ELSE log \o <<Call("explanation", i, o1), Delay,
                                              Call("docstring", i, o2), Delay>>
           ELSE /\ code_elements' =
                     [code_elements EXCEPT ![i] =
                        SetKey(SetKey(element, "explanation", None), "docstring", None)]
                /\ log' = log
    /\ i' = i + 1
    /\ UNCHANGED <<pc, fs, individual_files, deepseek_client, exit_status,
                   project_name, documented_elements, readme_overview, save_outcome,
                   loaded_data_for_tutorial, tutorial_outline_structure,
                   outline_built, sec, sub, full_script_parts>>

\* doc_generator.py:156-173, one iteration of the loop: the explanation call,
\* the delay, the docstring call, the delay; or the skip of an element of
\* another kind.
ProcessElement ==
    /\ pc = "process"
    /\ i <= Len(code_elements)
    /\ LET element == code_elements[i]
       IN  IF element.type \in DocumentedKinds
           THEN \E o1 \in ApiOutcomes, o2 \in ApiOutcomes :
                  LET explanation == generate_explanation_for_element(o1)
                      docstring == generate_docstring_for_element(o2)
                  IN  /\ code_elements' =
                           [code_elements EXCEPT ![i] =
                              SetKey(SetKey(element, "explanation", explanation),
                                     "docstring", docstring)]
                      /\ log' = log \o <<Call("explanation", i, o1), Delay,
                                         Call("docstring", i, o2), Delay>>
           ELSE /\ code_elements' =
                     [code_elements EXCEPT ![i] =
                        SetKey(SetKey(element, "explanation", None), "docstring", None)]
                /\ log' = log
    /\ i' = i + 1
    /\ UNCHANGED <<pc, fs, individual_files, deepseek_client, exit_status,
                   project_name, documented_elements, readme_overview, save_outcome,
                   loaded_data_for_tutorial, tutorial_outline_structure,
                   outline_built, sec, sub, full_script_parts>>

\* doc_generator.py:175 and main.py:86: the loop is over, the list is returned.
ProcessReturn ==
    /\ pc = "process"
    /\ i > Len(code_elements)
    /\ documented_elements' = code_elements
    /\ pc' = "overview"
    /\ UNCHANGED <<fs, individual_files, deepseek_client, exit_status, project_name,
                   code_elements, i, readme_overview, save_outcome,
                   loaded_data_for_tutorial, tutorial_outline_structure,
                   outline_built, sec, sub, full_script_parts, log>>

\* The explanation prefix a bullet keeps (doc_generator.py:118).
SummaryChars == 150

\* The bullets the prompt keeps (doc_generator.py:133).
MaxSummaries == 20

Min(a, b) == IF a < b THEN a ELSE b

\* A slice that keeps everything.
PrefixWhole(t, n) == t

\* t[:n]
Prefix(t, n) == SubSeq(t, 1, Min(n, Len(t)))

\* The fixed texts generate_project_overview returns without calling the model
\* (doc_generator.py:113, 126).
NoElementsMessage == <<"no elements were given, no overview can be generated">>

NoExplanationsMessage == <<"no explanation is available to generate an overview">>

\* doc_generator.py:115-123: one bullet per element with a truthy explanation,
\* and one per class without one.
RECURSIVE Summaries(_)
Summaries(all_elements) ==
    IF all_elements = <<>> THEN <<>>
    ELSE LET element == Head(all_elements)
             rest == Summaries(Tail(all_elements))
         IN  IF Truthy(Get(element, "explanation"))
             THEN <<[type |-> Capitalize(element.type), name |-> element.name,
                     class_name |-> IF TruthyName(Get(element, "class_name"))
                                    THEN element.class_name ELSE None,
                     text |-> Some(Prefix(element.explanation[1], SummaryChars))]>>
                  \o rest
             ELSE IF element.type = "class"
             THEN <<[type |-> "class", name |-> element.name, class_name |-> None,
                     text |-> None]>> \o rest
             ELSE rest

\* doc_generator.py:108-148.  The result and the calls issued: the prompt of the
\* call carries the first MaxSummaries bullets.
generate_project_overview(all_elements, outcome) ==
    IF all_elements = <<>>
    THEN [overview |-> Some(NoElementsMessage), calls |-> <<>>]
    ELSE LET summaries == Summaries(all_elements)
         IN  IF summaries = <<>>
             THEN [overview |-> Some(NoExplanationsMessage), calls |-> <<>>]
             ELSE [overview |-> _make_api_call(outcome),
                   calls |-> <<Call("overview", Prefix(summaries, MaxSummaries),
                                   outcome)>>]

\* main.py:106
GenerateOverview ==
    /\ pc = "overview"
    /\ \E outcome \in ApiOutcomes :
         LET r == generate_project_overview(documented_elements, outcome)
         IN  /\ readme_overview' = r.overview
             /\ log' = log \o r.calls
    /\ pc' = "save"
    /\ UNCHANGED <<fs, individual_files, deepseek_client, exit_status, project_name,
                   code_elements, i, documented_elements, save_outcome,
                   loaded_data_for_tutorial, tutorial_outline_structure,
                   outline_built, sec, sub, full_script_parts>>

-----------------------------------------------------------------------------
(* The output directory                                                    *)

Projects == {"projA", "projB", "Unknown_Project"}

\* main.py:119-120 and tutorial_planner.py:17-20
CheckpointPath(project) == project \o "_documentation_data.json"

\* main.py:186
ReadmePath == "README_overview.md"

\* main.py:295
ScriptPath(project) == project \o "_full_tutorial_script.txt"

Paths == {CheckpointPath(p) : p \in Projects} \cup {ScriptPath(p) : p \in Projects}
             \cup {ReadmePath}

Absent == [kind |-> "absent"]

\* A file that exists and holds no JSON document: cut short, or not JSON.
Unparsable == [kind |-> "unparsable"]

JsonFile(doc) == [kind |-> "json", doc |-> doc]

TextFile(text) == [kind |-> "text", text |-> text]

EmptyDir == [p \in Paths |-> Absent]

-----------------------------------------------------------------------------
(* tutorial_planner.py: build_tutorial_outline                             *)

\* The fixed request texts of the sections without an overview
\* (tutorial_planner.py:59, 67, 109).
IntroductionRequest(project) == <<"write an introduction for " \o project>>

SetupRequest(project) == <<"explain how to install and configure " \o project>>

ConclusionRequest(project) == <<"summarise the tutorial of " \o project>>

\* A filter that leaves the explanation out.
QualifiesByKind(el) ==
    el.type \in {"function", "method", "class", "async function", "async method"}

\* An element goes into the outline when its explanation is truthy and its
\* kind is one of the five (tutorial_planner.py:78).
Qualifies(el) ==
    /\ Truthy(Get(el, "explanation"))
    /\ el.type \in {"function", "method", "class", "async function", "async method"}

\* A sort key that leaves the owning class out.
SortKeyWithoutClass(x) == <<x.file_path, "", x.start_line>>

\* tutorial_planner.py:79-83
SortKey(x) ==
    <<x.file_path,
      IF TruthyName(Get(x, "class_name")) THEN x.class_name[1] ELSE "",
      x.start_line>>

\* Python's order on the key tuples.
KeyLess(a, b) ==
    \/ StrLess(a[1], b[1])
    \/ a[1] = b[1] /\ StrLess(a[2], b[2])
    \/ a[1] = b[1] /\ a[2] = b[2] /\ a[3] < b[3]

\* sorted() is stable: an element goes after the elements whose key is not
\* greater than its own.
RECURSIVE InsertSorted(_, _)
InsertSorted(s, x) ==
    IF s = <<>> THEN <<x>>
    ELSE IF KeyLess(SortKey(x), SortKey(Head(s))) THEN <<x>> \o s
    ELSE <<Head(s)>> \o InsertSorted(Tail(s), x)

RECURSIVE Sorted(_)
Sorted(s) ==
    IF s = <<>> THEN <<>>
    ELSE InsertSorted(Sorted(SubSeq(s, 1, Len(s) - 1)), s[Len(s)])

\* tutorial_planner.py:86-100.  The title is the capitalised kind and the name,
\* qualified by the class of a method.
CoreFeatureDetail(element) ==
    [section_type |-> "core_feature_detail",
     title |-> IF TruthyName(Get(element, "class_name"))
               THEN Capitalize(element.type) \o ": " \o element.class_name[1]
                        \o "." \o element.name
               ELSE Capitalize(element.type) \o ": " \o element.name,
     element_name |-> element.name,
     element_type |-> element.type,
     element_class_name |-> Get(element, "class_name"),
     code_snippet |-> element.code,
     explanation |-> element.explanation,
     file_path |-> element.file_path]

RECURSIVE MapDetail(_)
MapDetail(s) ==
    IF s = <<>> THEN <<>> ELSE <<CoreFeatureDetail(Head(s))>> \o MapDetail(Tail(s))

\* An outline whose conclusion is appended only with the core features.
build_tutorial_outline_conclusion_in_branch(elements, project, overview) ==
    IF elements = <<>> THEN <<>>
    ELSE LET sub_sections == MapDetail(Sorted(SelectSeq(elements, Qualifies)))
         IN  <<[section_type |-> "introduction", title |-> "Welcome to " \o project,
                content_source |-> IF Truthy(overview) THEN overview[1]
                                   ELSE IntroductionRequest(project),
                project_name |-> project],
               [section_type |-> "setup", title |-> "Setup",
                content_source |-> SetupRequest(project)]>>
             \o (IF sub_sections # <<>>
                 THEN <<[section_type |-> "core_features_parent",
                         title |-> "Core features", sub_sections |-> sub_sections],
                        [section_type |-> "conclusion", title |-> "Conclusion",
                         content_source |-> ConclusionRequest(project)]>>
                 ELSE <<>>)

\* An outline that keeps the core features although none qualifies.
build_tutorial_outline_always_parent(elements, project, overview) ==
    IF elements = <<>> THEN <<>>
    ELSE <<[section_type |-> "introduction", title |-> "Welcome to " \o project,
            content_source |-> IF Truthy(overview) THEN overview[1]
                               ELSE IntroductionRequest(project),
            project_name |-> project],
           [section_type |-> "setup", title |-> "Setup",
            content_source |-> SetupRequest(project)],
           [section_type |-> "core_features_parent", title |-> "Core features",
            sub_sections |-> MapDetail(Sorted(SelectSeq(elements, Qualifies)))],
           [section_type |-> "conclusion", title |-> "Conclusion",
            content_source |-> ConclusionRequest(project)]>>

\* tutorial_planner.py:35-113
build_tutorial_outline(elements, project, overview) ==
    IF elements = <<>> THEN <<>>
    ELSE LET sub_sections == MapDetail(Sorted(SelectSeq(elements, Qualifies)))
         IN  <<[section_type |-> "introduction", title |-> "Welcome to " \o project,
                content_source |-> IF Truthy(overview) THEN overview[1]
                                   ELSE IntroductionRequest(project),
                project_name |-> project],
               [section_type |-> "setup", title |-> "Setup",
                content_source |-> SetupRequest(project)]>>
             \o (IF sub_sections # <<>>
                 THEN <<[section_type |-> "core_features_parent",
                         title |-> "Core features", sub_sections |-> sub_sections]>>
                 ELSE <<>>)
             \o <<[section_type |-> "conclusion", title |-> "Conclusion",
                   content_source |-> ConclusionRequest(project)]>>

\* A step 4 that reads the overview back from the overview file when the run
\* holds none in memory.
BuildOutlineReloadingOverview ==
    /\ pc = "build"
    /\ tutorial_outline_structure' =
           build_tutorial_outline(
               loaded_data_for_tutorial, project_name,
               IF readme_overview = None /\ fs[ReadmePath].kind = "text"
               THEN Some(fs[ReadmePath].text.overview) ELSE readme_overview)
    /\ outline_built' = TRUE
    /\ pc' = "step5"
    /\ UNCHANGED <<fs, individual_files, deepseek_client, exit_status, project_name,
                   code_elements, i, documented_elements, readme_overview,
                   save_outcome, loaded_data_for_tutorial, sec, sub,
                   full_script_parts, log>>

\* main.py:259
BuildOutline ==
    /\ pc = "build"
    /\ tutorial_outline_structure' =
           build_tutorial_outline(loaded_data_for_tutorial, project_name,
                                  readme_overview)
    /\ outline_built' = TRUE
    /\ pc' = "step5"
    /\ UNCHANGED <<fs, individual_files, deepseek_client, exit_status, project_name,
                   code_elements, i, documented_elements, readme_overview,
                   save_outcome, loaded_data_for_tutorial, sec, sub,
                   full_script_parts, log>>

-----------------------------------------------------------------------------
(* script_generator.py                                                     *)

\* script_generator.py:155, 163: the text of a part whose call gave nothing.
Sentinel == <<"# no script could be generated for this part">>

\* section_data.get(key, default)
GetOr(d, k, default) == IF k \in DOMAIN d THEN d[k] ELSE default

\* script_generator.py:47-115: the prompt of a section, by its kind; a kind
\* without a template of its own gets the generic one.
ScriptPrompt(section) ==
    CASE section.section_type = "introduction" ->
            [template |-> "introduction",
             content |-> GetOr(section, "content_source", <<"a very useful project">>)]
      [] section.section_type = "setup" ->
            [template |-> "setup",
             content |-> GetOr(section, "content_source", <<"describe the setup">>)]
      [] section.section_type = "core_feature_detail" ->
            [template |-> "core_feature_detail",
             element_name |-> Get(section, "element_name"),
             element_type |-> Get(section, "element_type"),
             class_name |-> Get(section, "element_class_name"),
             code_snippet |-> GetOr(section, "code_snippet", "# code snippet missing"),
             explanation |-> GetOr(section, "explanation",
                                   Some(<<"this feature is important">>))]
      [] section.section_type = "conclusion" ->
            [template |-> "conclusion",
             content |-> GetOr(section, "content_source", <<"summarise the tutorial">>)]
      [] OTHER ->
            [template |-> "generic", title |-> section.title,
             content |-> GetOr(section, "content_source", <<section.title>>)]

\* script_generator.py:36-133: one model call with the section's prompt.
generate_script_for_section(section, outcome) ==
    [script |-> _make_llm_call_for_script(outcome),
     calls |-> <<Call("script", ScriptPrompt(section), outcome)>>]

\* A part list that leaves out the section whose call gave nothing.
ScriptPartsOmitFailed(section, script_content) ==
    IF Truthy(script_content)
    THEN <<[title |-> section.title, type |-> section.section_type,
            script |-> script_content[1]]>>
    ELSE <<>>

\* A part that takes the sentinel only when the call gave None.
ScriptPartsEmptyKept(section, script_content) ==
    <<[title |-> section.title, type |-> section.section_type,
       script |-> IF script_content # None THEN script_content[1] ELSE Sentinel]>>

\* script_generator.py:152-156, 160-164: the part appended for a section.
ScriptParts(section, script_content) ==
    <<[title |-> section.title, type |-> section.section_type,
       script |-> IF Truthy(script_content) THEN script_content[1] ELSE Sentinel]>>

\* The section the loop of generate_full_tutorial_script is at.
CurrentSection == tutorial_outline_structure[sec]

IsParent(section) == section.section_type = "core_features_parent"

\* The sub-sections from the last to the first.
SubSectionsReversed(section) ==
    LET s == GetOr(section, "sub_sections", <<>>)
    IN  [k \in 1..Len(s) |-> s[Len(s) + 1 - k]]

\* section_data.get("sub_sections", [])
SubSections(section) == GetOr(section, "sub_sections", <<>>)

\* script_generator.py:158-165: a section that is not the parent: the call, the
\* part, the delay.
ScriptLeaf ==
    /\ pc = "script"
    /\ sec <= Len(tutorial_outline_structure)
    /\ ~ IsParent(CurrentSection)
    /\ \E outcome \in ApiOutcomes :
         LET r == generate_script_for_section(CurrentSection, outcome)
         IN  /\ full_script_parts' =
                    full_script_parts \o ScriptParts(CurrentSection, r.script)
             /\ log' = log \o r.calls \o <<Delay>>
    /\ sec' = sec + 1
    /\ UNCHANGED <<pc, fs, individual_files, deepseek_client, exit_status,
                   project_name, code_elements, i, documented_elements,
                   readme_overview, save_outcome, loaded_data_for_tutorial,
                   tutorial_outline_structure, outline_built, sub>>

\* script_generator.py:150-157: one sub-section of the parent.
ScriptSubSection ==
    /\ pc = "script"
    /\ sec <= Len(tutorial_outline_structure)
    /\ IsParent(CurrentSection)
    /\ sub <= Len(SubSections(CurrentSection))
    /\ \E outcome \in ApiOutcomes :
         LET sub_section_data == SubSections(CurrentSection)[sub]
             r == generate_script_for_section(sub_section_data, outcome)
         IN  /\ full_script_parts' =
                    full_script_parts \o ScriptParts(sub_section_data, r.script)
             /\ log' = log \o r.calls \o <<Delay>>
    /\ sub' = sub + 1
    /\ UNCHANGED <<pc, fs, individual_files, deepseek_client, exit_status,
                   project_name, code_elements, i, documented_elements,
                   readme_overview, save_outcome, loaded_data_for_tutorial,
                   tutorial_outline_structure, outline_built, sec>>

\* script_generator.py:145-150: the sub-sections of the parent are done; the
\* parent itself gets no call and no part.
ScriptParentDone ==
    /\ pc = "script"
    /\ sec <= Len(tutorial_outline_structure)
    /\ IsParent(CurrentSection)
    /\ sub > Len(SubSections(CurrentSection))
    /\ sec' = sec + 1
    /\ sub' = 1
    /\ UNCHANGED <<pc, fs, individual_files, deepseek_client, exit_status,
                   project_name, code_elements, i, documented_elements,
                   readme_overview, save_outcome, loaded_data_for_tutorial,
                   tutorial_outline_structure, outline_built, full_script_parts,
                   log>>

\* script_generator.py:167-168 and main.py:285
ScriptReturn ==
    /\ pc = "script"
    /\ sec > Len(tutorial_outline_structure)
    /\ pc' = "save_script"
    /\ UNCHANGED <<fs, individual_files, deepseek_client, exit_status, project_name,
                   code_elements, i, documented_elements, readme_overview,
                   save_outcome, loaded_data_for_tutorial,
                   tutorial_outline_structure, outline_built, sec, sub,
                   full_script_parts, log>>

-----------------------------------------------------------------------------
(* The checkpoint: json.dump (main.py:122-123) and json.load                *)
(* (tutorial_planner.py:25-26)                                              *)

IntKeys == {"start_line", "end_line"}

OptionalKeys == {"class_name", "explanation", "docstring"}

\* An encoder that writes None as the string "None".
JsonValueNoneAsString(key, v) ==
    IF key \in IntKeys THEN <<"number", v>>
    ELSE IF key \in OptionalKeys
         THEN (IF v = None THEN <<"string", "None">> ELSE <<"string", v[1]>>)
    ELSE <<"string", v>>

\* The JSON value of a Python value: null for None, a string, a number.
JsonValue(key, v) ==
    IF key \in IntKeys THEN <<"number", v>>
    ELSE IF key \in OptionalKeys
         THEN (IF v = None THEN <<"null">> ELSE <<"string", v[1]>>)
    ELSE <<"string", v>>

\* The Python value of a JSON value.
PyValue(key, j) ==
    IF j[1] = "null" THEN None
    ELSE IF key \in OptionalKeys THEN Some(j[2])
    ELSE j[2]

\* json.dump of the element list: one object per element, one member per key.
JsonDump(elements) ==
    [k \in 1..Len(elements) |->
        [key \in DOMAIN elements[k] |-> JsonValue(key, elements[k][key])]]

\* json.load of such a document.
JsonLoad(doc) ==
    [k \in 1..Len(doc) |-> [key \in DOMAIN doc[k] |-> PyValue(key, doc[k][key])]]

\* A loader that opens the checkpoint for writing: the file is cut to nothing.
load_documentation_data_truncating(dir, project) ==
    LET path == CheckpointPath(project)
    IN  IF dir[path].kind = "absent"
        THEN [elements |-> <<>>, dir |-> dir]
        ELSE [elements |-> <<>>, dir |-> [dir EXCEPT ![path] = Unparsable]]

\* tutorial_planner.py:6-33: the elements loaded, and the directory after the
\* call (the file is only read).
load_documentation_data(dir, project) ==
    LET path == CheckpointPath(project)
    IN  IF dir[path].kind = "absent"
        THEN [elements |-> <<>>, dir |-> dir]
        ELSE IF dir[path].kind = "json"
        THEN [elements |-> JsonLoad(dir[path].doc), dir |-> dir]
        ELSE [elements |-> <<>>, dir |-> dir]

-----------------------------------------------------------------------------
(* main.py                                                                 *)

\* main.py:39-47 with deepseek_client.py:18-40: a missing key raises ValueError
\* out of the script (status 1); a constructor that raises gives None and the
\* script calls exit(), whose status is 0.
InitializeClient ==
    /\ pc = "step1"
    /\ \E key_present \in BOOLEAN, constructed \in BOOLEAN :
         IF ~ key_present
         THEN /\ pc' = "exited"
              /\ exit_status' = 1
              /\ deepseek_client' = "none"
         ELSE IF ~ constructed
         THEN /\ pc' = "exited"
              /\ exit_status' = 0
              /\ deepseek_client' = "none"
         ELSE /\ pc' = "step2"
              /\ exit_status' = exit_status
              /\ deepseek_client' = "client"
    /\ UNCHANGED <<fs, individual_files, project_name, code_elements, i,
                   documented_elements, readme_overview, save_outcome,
                   loaded_data_for_tutorial, tutorial_outline_structure,
                   outline_built, sec, sub, full_script_parts, log>>

\* code_parser.py: the syntax tree of a file and the elements taken from it.

\* A node of the tree ast.parse gives: its class, its name, its first line, and
\* the nodes of its body.  end_lineno is one past lineno, as in Elem.
Node(class, name, lineno, body) ==
    [node |-> class, name |-> name, lineno |-> lineno, end_lineno |-> lineno + 1,
     body |-> body]

\* A source file: its path and what ast.parse makes of it, the nodes of the
\* module or a SyntaxError.
ParsedFile(file_path, body) == [file_path |-> file_path, parsed |-> TRUE, body |-> body]

SyntaxErrorFile(file_path) == [file_path |-> file_path, parsed |-> FALSE, body |-> <<>>]

\* ast.get_source_segment: the text of the node.
get_source_segment(node) == "src:" \o node.name

\* A parser that gives every element found in a class, the class included, the
\* name of that class as its owner.
ClassOwner_owning_itself(node) == Some(node.name)

\* code_parser.py:119: the owner recorded for a class.
ClassOwner(node) == None

\* code_parser.py:124-139: the methods of a class, in the order of its body.
RECURSIVE ExtractMethods(_, _, _)
ExtractMethods(file_path, current_class_name, body) ==
    IF body = <<>> THEN <<>>
    ELSE LET method_node == Head(body)
         IN  (IF method_node.node \in {"FunctionDef", "AsyncFunctionDef"}
              THEN <<[file_path |-> file_path,
                      name |-> method_node.name,
                      type |-> IF method_node.node = "AsyncFunctionDef"
                               THEN "async method" ELSE "method",
                      code |-> get_source_segment(method_node),
                      start_line |-> method_node.lineno,
                      end_line |-> method_node.end_lineno,
                      class_name |-> Some(current_class_name)]>>
              ELSE <<>>)
             \o ExtractMethods(file_path, current_class_name, Tail(body))

\* code_parser.py:88-139: the elements of the top-level nodes, in their order.
RECURSIVE ExtractNodes(_, _)
ExtractNodes(file_path, body) ==
    IF body = <<>> THEN <<>>
    ELSE LET node == Head(body)
         IN  (IF node.node \in {"FunctionDef", "AsyncFunctionDef"}
              THEN <<[file_path |-> file_path,
                      name |-> node.name,
                      type |-> IF node.node = "AsyncFunctionDef"
                               THEN "async function" ELSE "function",
                      code |-> get_source_segment(node),
                      start_line |-> node.lineno,
                      end_line |-> node.end_lineno,
                      class_name |-> None]>>
              ELSE IF node.node = "ClassDef"
              THEN <<[file_path |-> file_path,
                      name |-> node.name,
                      type |-> "class",
                      code |-> get_source_segment(node),
                      start_line |-> node.lineno,
                      end_line |-> node.end_lineno,
                      class_name |-> ClassOwner(node)]>>
                   \o ExtractMethods(file_path, node.name, node.body)
              ELSE <<>>)
             \o ExtractNodes(file_path, Tail(body))

\* code_parser.py:60-143: no element of a file with a syntax error.
extract_code_elements_from_file(file) ==
    IF file.parsed THEN ExtractNodes(file.file_path, file.body) ELSE <<>>

\* main.py:59-61: the elements of the files, in the order the files were found.
RECURSIVE ExtractAll(_)
ExtractAll(python_files) ==
    IF python_files = <<>> THEN <<>>
    ELSE extract_code_elements_from_file(Head(python_files))
         \o ExtractAll(Tail(python_files))

\* The files find_python_files gives for the code bases of the runs: none; a
\* function f; an async function g in a file found before the file of f; a
\* class C with a method m; and, after a file with a syntax error, a class D
\* with an assignment and an async method n in its body, then an assignment.
SourceFiles ==
    {<<>>,
     <<ParsedFile("a.py", <<Node("FunctionDef", "f", 1, <<>>)>>)>>,
     <<ParsedFile("b.py", <<Node("AsyncFunctionDef", "g", 5, <<>>)>>),
       ParsedFile("a.py", <<Node("FunctionDef", "f", 1, <<>>)>>)>>,
     <<ParsedFile("a.py", <<Node("ClassDef", "C", 3,
                                 <<Node("FunctionDef", "m", 4, <<>>)>>)>>)>>,
     <<SyntaxErrorFile("b.py"),
       ParsedFile("a.py", <<Node("ClassDef", "D", 1,
                                 <<Node("Assign", "x", 2, <<>>),
                                   Node("AsyncFunctionDef", "n", 3, <<>>)>>),
                            Node("Assign", "v", 5, <<>>)>>)>>}

\* What get_codebase_path_from_user and the extraction loop of main.py:52-70 can
\* yield: no path; and, for a path, the elements of its files, files in the
\* order os.walk gives them.
Codebases ==
    {[path |-> None, elements |-> <<>>]}
    \cup {[path |-> Some("projA"), elements |-> ExtractAll(python_files)] :
             python_files \in SourceFiles}

\* main.py:52-86: the extraction, the output directory, and the test that
\* guards step 3.
ExtractElements ==
    /\ pc = "step2"
    /\ \E cb \in Codebases :
         /\ project_name' = IF cb.path # None THEN cb.path[1] ELSE "Unknown_Project"
         /\ code_elements' = cb.elements
         /\ pc' = IF deepseek_client = "client" /\ cb.elements # <<>>
                  THEN "process" ELSE "step4"
    /\ i' = 1
    /\ documented_elements' = <<>>
    /\ readme_overview' = None
    /\ UNCHANGED <<fs, individual_files, deepseek_client, exit_status, save_outcome,
                   loaded_data_for_tutorial, tutorial_outline_structure,
                   outline_built, sec, sub, full_script_parts, log>>

\* main.py:136-181: the names of the files written under individual_files.
IndividualFiles(elements) ==
    {<<elements[k].file_path,
       IF TruthyName(Get(elements[k], "class_name")) THEN elements[k].class_name[1]
       ELSE "",
       elements[k].name, "explanation">> :
        k \in {n \in 1..Len(elements) : Truthy(Get(elements[n], "explanation"))}}
    \cup
    {<<elements[k].file_path,
       IF TruthyName(Get(elements[k], "class_name")) THEN elements[k].class_name[1]
       ELSE "",
       elements[k].name, "docstring">> :
        k \in {n \in 1..Len(elements) : Truthy(Get(elements[n], "docstring"))}}

\* main.py:204: the elements whose explanation is appended to the overview.
HasReference(el) ==
    /\ el.type \in {"function", "method", "async function", "async method"}
    /\ Truthy(Get(el, "explanation"))

\* main.py:190-215: the heading, the overview and the detailed reference.
ReadmeText(project, overview, elements) ==
    [heading |-> project, overview |-> overview,
     reference |-> SelectSeq(elements, HasReference)]

\* main.py:117-221: the checkpoint, the individual files and the overview file.
\* The dump can fail before the file is opened (the file stays as it was) or
\* while it is written (the file is left cut short); failures of the other
\* writes are not modelled.
SaveArtifacts ==
    /\ pc = "save"
    /\ \E outcome \in {"saved", "open_failed", "write_failed"} :
         /\ save_outcome' = IF documented_elements # <<>> THEN outcome ELSE "none"
         /\ fs' = [p \in Paths |->
                     IF p = CheckpointPath(project_name) /\ documented_elements # <<>>
                     THEN (CASE outcome = "saved" -> JsonFile(JsonDump(documented_elements))
                             [] outcome = "open_failed" -> fs[p]
                             [] outcome = "write_failed" -> Unparsable)
                     ELSE IF p = ReadmePath /\ Truthy(readme_overview)
                     THEN TextFile(ReadmeText(project_name, readme_overview[1],
                                              documented_elements))
                     ELSE fs[p]]
    /\ individual_files' = individual_files \cup IndividualFiles(documented_elements)
    /\ pc' = "step4"
    /\ UNCHANGED <<deepseek_client, exit_status, project_name, code_elements, i,
                   documented_elements, readme_overview, loaded_data_for_tutorial,
                   tutorial_outline_structure, outline_built, sec, sub,
                   full_script_parts, log>>

\* A load that falls back on the in-memory collection when the file gives
\* nothing (the branch main.py:245-247 keeps commented out).
LoadDataMemoryFallback ==
    /\ pc = "step4"
    /\ LET r == load_documentation_data(fs, project_name)
           elements == IF r.elements = <<>> THEN documented_elements ELSE r.elements
       IN  /\ loaded_data_for_tutorial' = elements
           /\ fs' = r.dir
           /\ pc' = IF elements # <<>> THEN "build" ELSE "step5"
    /\ UNCHANGED <<individual_files, deepseek_client, exit_status, project_name,
                   code_elements, i, documented_elements, readme_overview,
                   save_outcome, tutorial_outline_structure, outline_built, sec,
                   sub, full_script_parts, log>>

\* main.py:240-252: the load and the test that guards the outline.
LoadData ==
    /\ pc = "step4"
    /\ LET r == load_documentation_data(fs, project_name)
       IN  /\ loaded_data_for_tutorial' = r.elements
           /\ fs' = r.dir
           /\ pc' = IF r.elements # <<>> THEN "build" ELSE "step5"
    /\ UNCHANGED <<individual_files, deepseek_client, exit_status, project_name,
                   code_elements, i, documented_elements, readme_overview,
                   save_outcome, tutorial_outline_structure, outline_built, sec,
                   sub, full_script_parts, log>>

\* main.py:278-285, 309-317: the test that guards step 5.
StartScript ==
    /\ pc = "step5"
    /\ IF outline_built /\ tutorial_outline_structure # <<>>
          /\ deepseek_client = "client"
       THEN /\ pc' = "script"
            /\ exit_status' = exit_status
       ELSE /\ pc' = "done"
            /\ exit_status' = 0
    /\ sec' = 1
    /\ sub' = 1
    /\ full_script_parts' = <<>>
    /\ UNCHANGED <<fs, individual_files, deepseek_client, project_name,
                   code_elements, i, documented_elements, readme_overview,
                   save_outcome, loaded_data_for_tutorial,
                   tutorial_outline_structure, outline_built, log>>

\* main.py:287-317: the script file, and the end of the run.
SaveScript ==
    /\ pc = "save_script"
    /\ fs' = IF full_script_parts # <<>>
             THEN [fs EXCEPT ![ScriptPath(project_name)] = TextFile(full_script_parts)]
             ELSE fs
    /\ pc' = "done"
    /\ exit_status' = 0
    /\ UNCHANGED <<individual_files, deepseek_client, project_name, code_elements,
                   i, documented_elements, readme_overview, save_outcome,
                   loaded_data_for_tutorial, tutorial_outline_structure,
                   outline_built, sec, sub, full_script_parts, log>>

\* A checkpoint and an overview an earlier run left in the output directory.
StaleElements == <<Annotated(ElemG, Some(<<"e">>), Some(<<"d">>))>>

\* The checkpoint, the script and the overview an earlier run for the project
\* projB left in the output directory.
OtherProjectDir ==
    [p \in Paths |->
        IF p = CheckpointPath("projB") THEN JsonFile(JsonDump(StaleElements))
        ELSE IF p = ScriptPath("projB")
        THEN TextFile(<<[title |-> "Setup", type |-> "setup", script |-> <<"t">>]>>)
        ELSE IF p = ReadmePath
        THEN TextFile(ReadmeText("projB", <<"o">>, StaleElements))
        ELSE Absent]

\* What the output directory can hold when the run starts: nothing, a
\* checkpoint that cannot be parsed, the artifacts of earlier runs of the same
\* project names, or the artifacts of another project.
PriorDirs ==
    {EmptyDir,
     OtherProjectDir,
     [EmptyDir EXCEPT ![CheckpointPath("projA")] = Unparsable],
     [p \in Paths |->
        IF p \in {CheckpointPath(q) : q \in Projects}
        THEN JsonFile(JsonDump(StaleElements))
        ELSE IF p = ReadmePath
        THEN TextFile(ReadmeText("projA", <<"o">>, StaleElements))
        ELSE Absent]}

Init ==
    /\ pc = "step1"
    /\ fs \in PriorDirs
    /\ individual_files = {}
    /\ deepseek_client = "none"
    /\ exit_status = -1
    /\ project_name = "Unknown_Project"
    /\ code_elements = <<>>
    /\ i = 1
    /\ documented_elements = <<>>
    /\ readme_overview = None
    /\ save_outcome = "none"
    /\ loaded_data_for_tutorial = <<>>
    /\ tutorial_outline_structure = <<>>
    /\ outline_built = FALSE
    /\ sec = 1
    /\ sub = 1
    /\ full_script_parts = <<>>
    /\ log = <<>>

Next ==
    \/ InitializeClient
    \/ ExtractElements
    \/ ProcessElement
    \/ ProcessReturn
    \/ GenerateOverview
    \/ SaveArtifacts
    \/ LoadData
    \/ BuildOutline
    \/ StartScript
    \/ ScriptLeaf
    \/ ScriptSubSection
    \/ ScriptParentDone
    \/ ScriptReturn
    \/ SaveScript

Spec == Init /\ [][Next]_vars

-----------------------------------------------------------------------------
(* process_elements_for_docs and generate_project_overview on their own, for  *)
(* every element list up to MaxElems.                                         *)

InitDocs ==
    /\ pc = "process"
    /\ code_elements \in SeqsUpTo(ElementUniverse, MaxElems)
    /\ i = 1
    /\ fs = EmptyDir
    /\ individual_files = {}
    /\ deepseek_client = "client"
    /\ exit_status = -1
    /\ project_name = "projA"
    /\ documented_elements = <<>>
    /\ readme_overview = None
    /\ save_outcome = "none"
    /\ loaded_data_for_tutorial = <<>>
    /\ tutorial_outline_structure = <<>>
    /\ outline_built = FALSE
    /\ sec = 1
    /\ sub = 1
    /\ full_script_parts = <<>>
    /\ log = <<>>

NextDocs == ProcessElement \/ ProcessReturn \/ GenerateOverview

SpecDocs == InitDocs /\ [][NextDocs]_vars

-----------------------------------------------------------------------------
(* build_tutorial_outline on its own, for every annotated element list up   *)
(* to MaxLoaded and every overview.                                         *)

\* A method of a second class, declared above the method of class C.
ElemN == Elem("a.py", "n", "async method", 2, Some("D"))

\* Annotated elements a checkpoint can hold: explained ones of every documented
\* kind, one whose explanation call failed, one whose explanation is empty, and
\* an explained one of another kind.
LoadedUniverse ==
    {Annotated(ElemF, Some(<<"e">>), Some(<<"d">>)),
     Annotated(ElemC, Some(<<"e">>), None),
     Annotated(ElemM, Some(<<"e">>), Some(<<"d">>)),
     Annotated(ElemN, Some(<<"e">>), None),
     Annotated(ElemG, Some(<<"e">>), Some(<<"d">>)),
     Annotated(ElemF, None, Some(<<"d">>)),
     Annotated(ElemG, Some(<<>>), None),
     Annotated(ElemV, Some(<<"e">>), None)}

Overviews == {None, Some(<<>>), Some(<<"o">>)}

InitOutline ==
    /\ pc = "build"
    /\ loaded_data_for_tutorial \in SeqsUpTo(LoadedUniverse, MaxLoaded)
    /\ readme_overview \in Overviews
    /\ code_elements = <<>>
    /\ i = 1
    /\ fs = EmptyDir
    /\ individual_files = {}
    /\ deepseek_client = "client"
    /\ exit_status = -1
    /\ project_name = "projA"
    /\ documented_elements = <<>>
    /\ save_outcome = "none"
    /\ tutorial_outline_structure = <<>>
    /\ outline_built = FALSE
    /\ sec = 1
    /\ sub = 1
    /\ full_script_parts = <<>>
    /\ log = <<>>

NextOutline == BuildOutline

SpecOutline == InitOutline /\ [][NextOutline]_vars

-----------------------------------------------------------------------------
(* process_elements_for_docs with generate_project_overview, and               *)
(* build_tutorial_outline, each called on its own: the initial states are the  *)
(* calls of either.                                                            *)

InitFunctions == InitDocs \/ InitOutline

NextFunctions == NextDocs \/ NextOutline

SpecFunctions == InitFunctions /\ [][NextFunctions]_vars

-----------------------------------------------------------------------------
(* generate_full_tutorial_script on its own, for every outline up to        *)
(* MaxSections sections.                                                    *)

DetailF == CoreFeatureDetail(Annotated(ElemF, Some(<<"e">>), None))

DetailM == CoreFeatureDetail(Annotated(ElemM, Some(<<"e">>), None))

\* Sections an outline can be made of: the four kinds build_tutorial_outline
\* emits, a parent with two, one and no sub-section, a parent without the
\* sub_sections key, a detail at the top level, and sections of a kind without
\* a template, with and without content_source.
SectionUniverse ==
    {[section_type |-> "introduction", title |-> "Welcome to projA",
      content_source |-> <<"o">>, project_name |-> "projA"],
     [section_type |-> "setup", title |-> "Setup",
      content_source |-> SetupRequest("projA")],
     [section_type |-> "conclusion", title |-> "Conclusion",
      content_source |-> ConclusionRequest("projA")],
     [section_type |-> "core_features_parent", title |-> "Core features",
      sub_sections |-> <<DetailF, DetailM>>],
     [section_type |-> "core_features_parent", title |-> "Core features",
      sub_sections |-> <<DetailM>>],
     [section_type |-> "core_features_parent", title |-> "Core features",
      sub_sections |-> <<>>],
     [section_type |-> "core_features_parent", title |-> "Core features"],
     DetailF,
     [section_type |-> "appendix", title |-> "Appendix"],
     [section_type |-> "faq", title |-> "FAQ", content_source |-> <<"q">>]}

InitScript ==
    /\ pc = "script"
    /\ tutorial_outline_structure \in SeqsUpTo(SectionUniverse, MaxSections)
    /\ outline_built = TRUE
    /\ sec = 1
    /\ sub = 1
    /\ full_script_parts = <<>>
    /\ log = <<>>
    /\ loaded_data_for_tutorial = <<>>
    /\ readme_overview = None
    /\ code_elements = <<>>
    /\ i = 1
    /\ fs = EmptyDir
    /\ individual_files = {}
    /\ deepseek_client = "client"
    /\ exit_status = -1
    /\ project_name = "projA"
    /\ documented_elements = <<>>
    /\ save_outcome = "none"

NextScript == ScriptLeaf \/ ScriptSubSection \/ ScriptParentDone \/ ScriptReturn

SpecScript == InitScript /\ [][NextScript]_vars

-----------------------------------------------------------------------------
(* The run from step 3 on, over the code base of one file that defines the    *)
(* function f and then the class C with its method m.                         *)

\* What the extraction of main.py:60-66 yields for that file: code_parser.py
\* walks the top-level nodes in source order and, for a class, appends the class
\* and then its methods (code_parser.py:88-139).
ExampleCodebase == <<ElemF, ElemC, ElemM>>

InitEndToEnd ==
    /\ pc = "process"
    /\ code_elements = ExampleCodebase
    /\ i = 1
    /\ fs = EmptyDir
    /\ individual_files = {}
    /\ deepseek_client = "client"
    /\ exit_status = -1
    /\ project_name = "projA"
    /\ documented_elements = <<>>
    /\ readme_overview = None
    /\ save_outcome = "none"
    /\ loaded_data_for_tutorial = <<>>
    /\ tutorial_outline_structure = <<>>
    /\ outline_built = FALSE
    /\ sec = 1
    /\ sub = 1
    /\ full_script_parts = <<>>
    /\ log = <<>>

NextEndToEnd ==
    \/ ProcessElement
    \/ ProcessReturn
    \/ GenerateOverview
    \/ SaveArtifacts
    \/ LoadData
    \/ BuildOutline
    \/ StartScript
    \/ ScriptLeaf
    \/ ScriptSubSection
    \/ ScriptParentDone
    \/ ScriptReturn
    \/ SaveScript

SpecEndToEnd == InitEndToEnd /\ [][NextEndToEnd]_vars

-----------------------------------------------------------------------------
(* generate_docstring_for_element on its own, for every response of the      *)
(* model that wraps a docstring in a code fence, in triple quotes, or both.   *)

TripleDouble == <<DoubleQuote, DoubleQuote, DoubleQuote>>

TripleSingle == <<SingleQuote, SingleQuote, SingleQuote>>

\* The docstrings the model wraps.
DocstringBodies ==
    {<<"d">>, <<"d", "\n", "e">>, <<"d", " ", "e">>, <<"d", DoubleQuote, "e">>}

\* The fences around a docstring, as the opening and the closing piece: none;
\* a fence with the language tag, with no tag, and with no line break after it;
\* each closed with and without a line break before the closing fence.
FencePairs ==
    {<< <<>>, <<>> >>}
    \cup {<<open, close>> : open \in {PythonFence, Fence \o <<"\n">>, Fence},
                            close \in {<<"\n">> \o Fence, Fence}}

QuoteMarks == {<<>>, TripleDouble, TripleSingle}

\* The wrapped docstrings: the quotes inside the fence, and around it.
WrappedResponses ==
    {fp[1] \o q \o body \o q \o fp[2] :
        fp \in FencePairs, q \in QuoteMarks, body \in DocstringBodies}
    \cup
    {q \o fp[1] \o body \o fp[2] \o q :
        fp \in FencePairs, q \in QuoteMarks, body \in DocstringBodies}

DocstringOutcomes == {<<>>} \cup {<<r>> : r \in WrappedResponses}

\* doc_generator.py:167-168: the docstring call about one element.
GenerateDocstring ==
    /\ pc = "docstring"
    /\ \E outcome \in DocstringOutcomes :
         /\ code_elements' =
                [code_elements EXCEPT ![i] =
                    SetKey(code_elements[i], "docstring",
                           generate_docstring_for_element(outcome))]
         /\ log' = log \o <<Call("docstring", i, outcome)>>
    /\ pc' = "docstring_done"
    /\ UNCHANGED <<fs, individual_files, deepseek_client, exit_status, project_name,
                   i, documented_elements, readme_overview, save_outcome,
                   loaded_data_for_tutorial, tutorial_outline_structure,
                   outline_built, sec, sub, full_script_parts>>

InitDocstring ==
    /\ pc = "docstring"
    /\ code_elements = <<ElemF>>
    /\ i = 1
    /\ fs = EmptyDir
    /\ individual_files = {}
    /\ deepseek_client = "client"
    /\ exit_status = -1
    /\ project_name = "projA"
    /\ documented_elements = <<>>
    /\ readme_overview = None
    /\ save_outcome = "none"
    /\ loaded_data_for_tutorial = <<>>
    /\ tutorial_outline_structure = <<>>
    /\ outline_built = FALSE
    /\ sec = 1
    /\ sub = 1
    /\ full_script_parts = <<>>
    /\ log = <<>>

NextDocstring == GenerateDocstring

SpecDocstring == InitDocstring /\ [][NextDocstring]_vars

-----------------------------------------------------------------------------
(* generate_project_overview on its own, for element lists longer than the   *)
(* bullets the prompt keeps and explanations longer than the prefix a bullet  *)
(* keeps.                                                                     *)

\* Longest element list handed to generate_project_overview checked on its own.
MaxOverviewElems == 28

\* Longest explanation of these elements.
MaxExplanationLen == 152

ElementNames ==
    <<"n01", "n02", "n03", "n04", "n05", "n06", "n07", "n08", "n09", "n10",
      "n11", "n12", "n13", "n14", "n15", "n16", "n17", "n18", "n19", "n20",
      "n21", "n22", "n23", "n24", "n25", "n26", "n27", "n28", "n29", "n30">>

\* An explanation of n characters.
LongText(n) == [k \in 1..n |-> "x"]

\* The k-th element of a list of the given shape, its explanation n characters
\* long: every element an explained function; explained and unexplained
\* functions in turn; classes without an explanation; or explained methods
\* with, in turn, a class without an explanation, a function whose explanation
\* call raised and a function whose explanation is empty.
ShapedElement(shape, k, n) ==
    CASE shape = "explained" ->
            Annotated(Elem("a.py", ElementNames[k], "function", k, None),
                      Some(LongText(n)), None)
      [] shape = "alternating" ->
            Annotated(Elem("a.py", ElementNames[k], "function", k, None),
                      IF k % 2 = 1 THEN Some(LongText(n)) ELSE None, None)
      [] shape = "classes" ->
            Annotated(Elem("a.py", ElementNames[k], "class", k, None), None, None)
      [] OTHER ->
            IF k % 2 = 1
            THEN Annotated(Elem("a.py", ElementNames[k], "method", k, Some("C")),
                           Some(LongText(n)), None)
            ELSE IF k % 4 = 2
            THEN Annotated(Elem("a.py", ElementNames[k], "class", k, None), None, None)
            ELSE IF k % 8 = 4
            THEN Annotated(Elem("a.py", ElementNames[k], "function", k, None),
                           None, None)
            ELSE Annotated(Elem("a.py", ElementNames[k], "function", k, None),
                           Some(<<>>), None)

OverviewShapes == {"explained", "alternating", "classes", "mixed"}

OverviewLengths ==
    {0, 1, 2, MaxSummaries - 1, MaxSummaries, MaxSummaries + 1, MaxOverviewElems}

ExplanationLengths ==
    {1, SummaryChars - 1, SummaryChars, SummaryChars + 1, MaxExplanationLen}

OverviewInputs ==
    {[k \in 1..len |-> ShapedElement(shape, k, n)] :
        shape \in OverviewShapes, len \in OverviewLengths, n \in ExplanationLengths}

InitOverview ==
    /\ pc = "overview"
    /\ documented_elements \in OverviewInputs
    /\ code_elements = documented_elements
    /\ i = Len(code_elements) + 1
    /\ fs = EmptyDir
    /\ individual_files = {}
    /\ deepseek_client = "client"
    /\ exit_status = -1
    /\ project_name = "projA"
    /\ readme_overview = None
    /\ save_outcome = "none"
    /\ loaded_data_for_tutorial = <<>>
    /\ tutorial_outline_structure = <<>>
    /\ outline_built = FALSE
    /\ sec = 1
    /\ sub = 1
    /\ full_script_parts = <<>>
    /\ log = <<>>

NextOverview == GenerateOverview

SpecOverview == InitOverview /\ [][NextOverview]_vars

-----------------------------------------------------------------------------
(* Reading the log                                                         *)

IsCall(e) == e[1] = "call"

IsDelay(e) == e[1] = "delay"

\* The calls of a stage of process_elements_for_docs about element k.
ElementCalls(stage, k) ==
    SelectSeq(log, LAMBDA e : IsCall(e) /\ e[2] = stage /\ e[3] = k)

StageCalls(stage) == SelectSeq(log, LAMBDA e : IsCall(e) /\ e[2] = stage)

Delays == SelectSeq(log, IsDelay)

\* The elements process_elements_for_docs has dealt with so far.
Processed == 1..(i - 1)

\* The kinds the claims call documented: function, async function, method,
\* async method, class.
FiveKinds == {"function", "async function", "method", "async method", "class"}

Documented(k) == code_elements[k].type \in FiveKinds

-----------------------------------------------------------------------------
(* Claims                                                                  *)

\* The leaf sections of an outline: the sub-sections of every parent and every
\* other top-level section.
RECURSIVE LeafCount(_)
LeafCount(outline) ==
    IF outline = <<>> THEN 0
    ELSE (IF Head(outline).section_type = "core_features_parent"
          THEN (IF "sub_sections" \in DOMAIN Head(outline)
                THEN Len(Head(outline).sub_sections) ELSE 0)
          ELSE 1) + LeafCount(Tail(outline))

\* C1: the list generate_full_tutorial_script returns has one part per leaf
\* section of the outline, whatever the kinds of the sections and whichever
\* model calls failed.
C1_OnePartPerLeaf ==
    pc = "save_script" => Len(full_script_parts) = LeafCount(tutorial_outline_structure)

\* C1 witness: the script of an outline made of a parent without sub-sections
\* and a section of a kind without a template was returned, and a call raised.
C1_Witness ==
    /\ pc = "save_script"
    /\ Len(tutorial_outline_structure) = 2
    /\ tutorial_outline_structure[1].section_type = "core_features_parent"
    /\ SubSections(tutorial_outline_structure[1]) = <<>>
    /\ tutorial_outline_structure[2].section_type = "appendix"
    /\ \E k \in 1..Len(log) : IsCall(log[k]) /\ log[k][4]
    /\ Len(full_script_parts) = 1

\* C2: annotation failures are independent per field.  For every processed
\* element of a documented kind, explanation is None exactly when the
\* explanation call raised and docstring is None exactly when the docstring
\* call raised, whatever the other call did.
C2_FieldsIndependent ==
    \A k \in Processed :
        Documented(k) =>
            /\ Len(ElementCalls("explanation", k)) = 1
            /\ Len(ElementCalls("docstring", k)) = 1
            /\ (code_elements[k].explanation = None)
                   <=> ElementCalls("explanation", k)[1][4]
            /\ (code_elements[k].docstring = None)
                   <=> ElementCalls("docstring", k)[1][4]

\* C2 witness: the docstring call of an element raised and its explanation call
\* did not; and for another element it is the other way round.
C2_Witness ==
    /\ pc = "overview"
    /\ \E k \in Processed :
         /\ Documented(k)
         /\ ElementCalls("docstring", k)[1][4]
         /\ ~ ElementCalls("explanation", k)[1][4]
         /\ code_elements[k].explanation # None
         /\ code_elements[k].docstring = None
    /\ \E k \in Processed :
         /\ Documented(k)
         /\ code_elements[k].explanation = None
         /\ code_elements[k].docstring # None

\* C3: an element whose kind is not documented ends with explanation and
\* docstring None, no model call is about it and no delay is spent on it (the
\* delays are two per documented element), and the loop goes on to the end of
\* the list.
C3_OtherKindsSkipped ==
    /\ \A k \in Processed :
         ~ Documented(k) =>
            /\ code_elements[k].explanation = None
            /\ code_elements[k].docstring = None
            /\ ElementCalls("explanation", k) = <<>>
            /\ ElementCalls("docstring", k) = <<>>
    /\ Len(Delays) = 2 * Cardinality({k \in Processed : Documented(k)})
    /\ pc # "process" => i = Len(code_elements) + 1

\* C3 witness: the list was processed to its end, an element of another kind
\* was skipped and the element after it was documented.
C3_Witness ==
    /\ pc = "overview"
    /\ \E k \in Processed :
         /\ ~ Documented(k)
         /\ k + 1 \in Processed
         /\ Documented(k + 1)
         /\ ElementCalls("explanation", k + 1) # <<>>

\* C9: generate_project_overview returns None when the collection is empty,
\* when no element carries an explanation, and when its model call raised; in
\* the first two cases it issues no model call.
C9_OverviewAbsent ==
    pc = "save" =>
        LET none_explained ==
                \A k \in 1..Len(documented_elements) :
                    ~ Truthy(Get(documented_elements[k], "explanation"))
            calls == StageCalls("overview")
        IN  /\ none_explained => readme_overview = None /\ calls = <<>>
            /\ (calls # <<>> /\ calls[1][4]) => readme_overview = None

\* The sections of a kind in the outline that was built.
SectionsOf(kind) ==
    SelectSeq(tutorial_outline_structure, LAMBDA x : x.section_type = kind)

\* The positions of the loaded elements that qualify for the outline: a
\* non-empty explanation and a documented kind.
QualifyingPositions ==
    {k \in 1..Len(loaded_data_for_tutorial) :
        /\ loaded_data_for_tutorial[k].explanation \notin {None, Some(<<>>)}
        /\ loaded_data_for_tutorial[k].type \in FiveKinds}

\* The composite key of C4: file_path, the owning class with None read as "",
\* start_line.
OrderingKey(e) ==
    <<e.file_path, IF e.class_name = None THEN "" ELSE e.class_name[1], e.start_line>>

\* C4: the sub-sections of the core features are exactly the qualifying
\* elements, each once, in ascending order of (file_path, owning class or "",
\* start_line): some one-to-one assignment of the sub-sections to the
\* qualifying elements gives every sub-section its element's detail and never
\* lets a key go down from one sub-section to the next.
C4_SubSectionsSorted ==
    (outline_built /\ SectionsOf("core_features_parent") # <<>>) =>
        LET subs == SectionsOf("core_features_parent")[1].sub_sections
            el(k) == loaded_data_for_tutorial[k]
        IN  /\ Len(subs) = Cardinality(QualifyingPositions)
            /\ \E f \in [1..Len(subs) -> QualifyingPositions] :
                 /\ \A a, b \in 1..Len(subs) : a # b => f[a] # f[b]
                 /\ \A a \in 1..Len(subs) : subs[a] = CoreFeatureDetail(el(f[a]))
                 /\ \A a \in 1..(Len(subs) - 1) :
                        ~ KeyLess(OrderingKey(el(f[a + 1])), OrderingKey(el(f[a])))

\* C4 witness: three qualifying elements were given in the order b.py, then
\* the method of class C of a.py, then the function of a.py, and came out as
\* function, method, b.py.
C4_Witness ==
    /\ outline_built
    /\ Len(loaded_data_for_tutorial) = 3
    /\ loaded_data_for_tutorial[1].name = "g"
    /\ loaded_data_for_tutorial[2].name = "m"
    /\ loaded_data_for_tutorial[3].name = "f"
    /\ SectionsOf("core_features_parent") # <<>>
    /\ LET subs == SectionsOf("core_features_parent")[1].sub_sections
       IN  /\ Len(subs) = 3
           /\ subs[1].element_name = "f"
           /\ subs[2].element_name = "m"
           /\ subs[3].element_name = "g"

\* C5 as stated: for every element collection, the empty one included, the
\* outline holds exactly one introduction, one setup and one conclusion.
C5_AlwaysThreeSections ==
    outline_built =>
        /\ Len(SectionsOf("introduction")) = 1
        /\ Len(SectionsOf("setup")) = 1
        /\ Len(SectionsOf("conclusion")) = 1

\* C5 as amended: for every non-empty element collection, also one in which no
\* element has an explanation, the outline holds exactly one introduction, one
\* setup and one conclusion; for the empty collection the outline is empty.
C5_ThreeSectionsUnlessEmpty ==
    outline_built =>
        IF loaded_data_for_tutorial = <<>>
        THEN tutorial_outline_structure = <<>>
        ELSE /\ Len(SectionsOf("introduction")) = 1
             /\ Len(SectionsOf("setup")) = 1
             /\ Len(SectionsOf("conclusion")) = 1

\* C5 witness: an outline was built from a non-empty collection in which no
\* element qualifies.
C5_Witness ==
    /\ outline_built
    /\ loaded_data_for_tutorial # <<>>
    /\ QualifyingPositions = {}
    /\ Len(tutorial_outline_structure) = 3

\* The kinds of the top-level sections, in order.
TopLevelKinds ==
    [k \in 1..Len(tutorial_outline_structure) |->
        tutorial_outline_structure[k].section_type]

\* The parent clauses of C6: at most one core features section, there exactly
\* when an element qualifies, and then with a sub-section.
ParentWhenQualifying ==
    /\ Len(SectionsOf("core_features_parent")) <= 1
    /\ SectionsOf("core_features_parent") # <<>> <=> QualifyingPositions # {}
    /\ \A k \in 1..Len(SectionsOf("core_features_parent")) :
           SectionsOf("core_features_parent")[k].sub_sections # <<>>

FixedOrder ==
    TopLevelKinds = IF QualifyingPositions # {}
                    THEN <<"introduction", "setup", "core_features_parent",
                           "conclusion">>
                    ELSE <<"introduction", "setup", "conclusion">>

\* C6 as stated: every outline build_tutorial_outline returns has at most one
\* core features section, present exactly when an element qualifies and then
\* not empty, and its top-level order is always introduction, setup, core
\* features (when present), conclusion.
C6_ParentAndOrder == outline_built => ParentWhenQualifying /\ FixedOrder

\* C6 as amended: the same, for every outline built from a non-empty element
\* collection; the outline of the empty collection is empty.
C6_ParentAndOrderUnlessEmpty ==
    outline_built =>
        IF loaded_data_for_tutorial = <<>>
        THEN tutorial_outline_structure = <<>>
        ELSE ParentWhenQualifying /\ FixedOrder

\* C6 witness: an outline with the core features between setup and conclusion
\* was built from a collection in which some elements qualify and some do not.
C6_Witness ==
    /\ outline_built
    /\ QualifyingPositions # {}
    /\ QualifyingPositions # 1..Len(loaded_data_for_tutorial)
    /\ TopLevelKinds = <<"introduction", "setup", "core_features_parent",
                         "conclusion">>

\* The positions of the main script that follow the load of the checkpoint.
AfterLoad == pc \in {"build", "step5", "script", "save_script", "done"}

\* C7: checkpoint round trip.  When the dump of the main script succeeded, what
\* load_documentation_data returns for the same directory and project name
\* equals the saved collection, element by element and field by field, None
\* values included.
C7_RoundTrip ==
    (AfterLoad /\ save_outcome = "saved") =>
        /\ Len(loaded_data_for_tutorial) = Len(documented_elements)
        /\ \A k \in 1..Len(documented_elements) :
             /\ DOMAIN loaded_data_for_tutorial[k] = DOMAIN documented_elements[k]
             /\ \A key \in DOMAIN documented_elements[k] :
                    loaded_data_for_tutorial[k][key] = documented_elements[k][key]

\* C7 witness: a collection was saved and loaded back in which one element has
\* no explanation but a docstring, and one a method's class and no docstring.
C7_Witness ==
    /\ AfterLoad
    /\ save_outcome = "saved"
    /\ \E k \in 1..Len(loaded_data_for_tutorial) :
         /\ loaded_data_for_tutorial[k].explanation = None
         /\ loaded_data_for_tutorial[k].docstring # None
    /\ \E k \in 1..Len(loaded_data_for_tutorial) :
         /\ loaded_data_for_tutorial[k].class_name # None
         /\ loaded_data_for_tutorial[k].docstring = None

\* C8: load_documentation_data never raises (the script goes on to its next
\* step); it returns the empty collection when the checkpoint file is absent and
\* when the file cannot be parsed; and it leaves every file as it was.
C8_LoadSwallowsFailure ==
    [][pc = "step4" =>
          /\ pc' \in {"build", "step5"}
          /\ fs' = fs
          /\ fs[CheckpointPath(project_name)].kind \in {"absent", "unparsable"}
                 => loaded_data_for_tutorial' = <<>>]_vars

\* C8 witness: the load ran on a checkpoint that was cut short by a failed save
\* of a non-empty collection, and returned the empty collection.
C8_Witness ==
    /\ pc = "step5"
    /\ documented_elements # <<>>
    /\ fs[CheckpointPath(project_name)].kind = "unparsable"
    /\ loaded_data_for_tutorial = <<>>

\* C10: between any two consecutive model calls of a run the delay occurs at
\* least once: in the log no call follows a call directly.
C10_DelayBetweenCalls ==
    \A k \in 1..(Len(log) - 1) : IsCall(log[k]) => IsDelay(log[k + 1])


\* C11: a run whose model session cannot be established ends with a status
\* other than 0, and nothing ran before it ended: no element was extracted, no
\* model call was issued, nothing was written to the output directory.
C11_NonZeroExit ==
    pc = "exited" =>
        /\ exit_status # 0
        /\ deepseek_client = "none"
        /\ code_elements = <<>>
        /\ log = <<>>
        /\ individual_files = {}
        /\ fs \in PriorDirs

\* The extraction of this run is over and found no element.
NothingExtracted == pc \notin {"step1", "step2", "exited"} /\ code_elements = <<>>

\* C12: when the extraction finds no element, the later stages produce
\* nothing, whatever the output directory held before the run: no outline is
\* built, no script call is issued, there is no script part and no script file.
C12_NothingExtractedNothingProduced ==
    NothingExtracted =>
        /\ ~ outline_built
        /\ tutorial_outline_structure = <<>>
        /\ StageCalls("script") = <<>>
        /\ full_script_parts = <<>>
        /\ fs[ScriptPath(project_name)] = Absent

\* Every model call issued so far raised.
AllCallsFailed == \A k \in 1..Len(log) : IsCall(log[k]) => log[k][4]

\* The kinds of the sections of an outline, and of the parts of a script.
SectionKinds(outline) == [k \in 1..Len(outline) |-> outline[k].section_type]

PartKinds(parts) == [k \in 1..Len(parts) |-> parts[k].type]

\* The elements the checkpoint of this run's project holds.
CheckpointElements == JsonLoad(fs[CheckpointPath(project_name)].doc)

\* C13: a run over a non-empty collection in which every model call raises
\* never stops before its last step, and, the checkpoint being written, ends
\* with a checkpoint that holds every element with explanation and docstring
\* None, the outline Introduction, Setup, Conclusion, and a script of three
\* parts in that order whose text is the sentinel.
C13_AllCallsFail ==
    /\ (AllCallsFailed /\ pc \notin {"done", "exited"}) => ENABLED Next
    /\ (pc = "done" /\ code_elements # <<>> /\ AllCallsFailed
            /\ save_outcome = "saved") =>
        /\ exit_status = 0
        /\ fs[CheckpointPath(project_name)].kind = "json"
        /\ Len(CheckpointElements) = Len(code_elements)
        /\ \A k \in 1..Len(code_elements) :
              /\ CheckpointElements[k].name = code_elements[k].name
              /\ CheckpointElements[k].file_path = code_elements[k].file_path
              /\ CheckpointElements[k].explanation = None
              /\ CheckpointElements[k].docstring = None
        /\ SectionKinds(tutorial_outline_structure)
               = <<"introduction", "setup", "conclusion">>
        /\ PartKinds(full_script_parts) = <<"introduction", "setup", "conclusion">>
        /\ \A k \in 1..Len(full_script_parts) : full_script_parts[k].script = Sentinel

\* C13 witness: a run over a class and its method ended; the two explanation
\* calls, the two docstring calls, the overview call and the three script calls
\* all raised.
C13_Witness ==
    /\ pc = "done"
    /\ Len(code_elements) = 2
    /\ save_outcome = "saved"
    /\ AllCallsFailed
    /\ Len(StageCalls("explanation")) = 2
    /\ Len(StageCalls("docstring")) = 2
    /\ Len(StageCalls("overview")) = 1
    /\ Len(StageCalls("script")) = 3
    /\ Len(full_script_parts) = 3

\* A call that returned a text that is not empty once stripped.
Succeeded(e) == ~ e[4] /\ Strip(e[5][1]) # <<>>

\* Every annotation call issued so far succeeded.
AnnotationSucceeded ==
    \A k \in 1..Len(log) :
        (IsCall(log[k]) /\ log[k][2] \in {"explanation", "docstring"})
            => Succeeded(log[k])

\* The run over f, C and C.m ended, every annotation call succeeded and the
\* checkpoint was written.
ExampleRunEnded ==
    /\ pc = "done"
    /\ code_elements # <<>>
    /\ [k \in 1..Len(code_elements) |-> code_elements[k].name] = <<"f", "C", "m">>
    /\ AnnotationSucceeded
    /\ save_outcome = "saved"

\* The titles of the sub-sections of the third section of the outline.
CoreFeatureTitles ==
    LET sub_sections == SubSections(tutorial_outline_structure[3])
    IN  [k \in 1..Len(sub_sections) |-> sub_sections[k].title]

PartTitles == [k \in 1..Len(full_script_parts) |-> full_script_parts[k].title]

\* C14 as stated: the run over f, C and C.m gives the outline Introduction,
\* Setup, CoreFeaturesParent [f, C.m], Conclusion and a script of 4 parts.
C14_FourParts ==
    ExampleRunEnded =>
        /\ SectionKinds(tutorial_outline_structure)
               = <<"introduction", "setup", "core_features_parent", "conclusion">>
        /\ CoreFeatureTitles = <<"Function: f", "Method: C.m">>
        /\ Len(full_script_parts) = 4

\* C14 as the code has it: the class C is annotated and explained like f and
\* m, so the sub-sections are f, C, C.m in this order and the script has 6
\* parts: Introduction, Setup, f, C, C.m, Conclusion.
C14_SixParts ==
    ExampleRunEnded =>
        /\ SectionKinds(tutorial_outline_structure)
               = <<"introduction", "setup", "core_features_parent", "conclusion">>
        /\ CoreFeatureTitles = <<"Function: f", "Class: C", "Method: C.m">>
        /\ PartTitles = <<"Welcome to projA", "Setup", "Function: f", "Class: C",
                          "Method: C.m", "Conclusion">>
        /\ PartKinds(full_script_parts)
               = <<"introduction", "setup", "core_feature_detail",
                   "core_feature_detail", "core_feature_detail", "conclusion">>

\* C14 witness: such a run ended with its six script calls issued, one of them
\* having raised.
C14_Witness ==
    /\ ExampleRunEnded
    /\ Len(StageCalls("script")) = 6
    /\ \E k \in 1..Len(log) : IsCall(log[k]) /\ log[k][2] = "script" /\ log[k][4]
    /\ fs[ScriptPath(project_name)].kind = "text"

\* C15: the k-th part is the part of the k-th script call, and its text is
\* never empty: it is the stripped text the model returned when that text is
\* not empty, and the sentinel when the call raised or returned nothing but
\* white space.  A failed call neither drops its part nor ends the loop: the
\* list returned has a part for every leaf.
C15_PartTextNeverEmpty ==
    LET calls == StageCalls("script")
    IN  /\ Len(calls) = Len(full_script_parts)
        /\ \A k \in 1..Len(full_script_parts) :
              /\ full_script_parts[k].script # <<>>
              /\ Succeeded(calls[k])
                    => full_script_parts[k].script = Strip(calls[k][5][1])
              /\ ~ Succeeded(calls[k]) => full_script_parts[k].script = Sentinel
        /\ pc = "save_script"
              => Len(full_script_parts) = LeafCount(tutorial_outline_structure)

\* C15 witness: of three leaves, the call of the first raised, the call of the
\* second returned white space and the call of the third returned a text; the
\* script returned has the sentinel twice and then the text.
C15_Witness ==
    LET calls == StageCalls("script")
    IN  /\ pc = "save_script"
        /\ Len(full_script_parts) = 3
        /\ calls[1][4]
        /\ ~ calls[2][4] /\ ~ Succeeded(calls[2])
        /\ Succeeded(calls[3])
        /\ full_script_parts[1].script = Sentinel
        /\ full_script_parts[2].script = Sentinel
        /\ full_script_parts[3].script = <<"t">>

\* The text starts or ends with a code fence, or with a triple-quote marker.
HasFenceOrQuotes(t) ==
    \/ StartsWith(t, Fence)
    \/ EndsWith(t, Fence)
    \/ StartsWith(t, TripleDouble)
    \/ EndsWith(t, TripleDouble)
    \/ StartsWith(t, TripleSingle)
    \/ EndsWith(t, TripleSingle)

\* C16: the docstring generate_docstring_for_element returns for a response
\* that wraps the text in a fence and/or in triple quotes neither starts nor
\* ends with a code fence or a triple-quote marker.
C16_DocstringClean ==
    (pc = "docstring_done" /\ code_elements[1].docstring # None)
        => ~ HasFenceOrQuotes(code_elements[1].docstring[1])

\* The explanation and docstring calls issued so far, as <<stage, subject>>.
AnnotationCalls ==
    LET calls == SelectSeq(log, LAMBDA e : IsCall(e)
                                            /\ e[2] \in {"explanation", "docstring"})
    IN  [k \in 1..Len(calls) |-> <<calls[k][2], calls[k][3]>>]

\* The calls of the first n elements: for each element of a documented kind, in
\* sequence order, its explanation call and then its docstring call.
RECURSIVE ExpectedCalls(_)
ExpectedCalls(n) ==
    IF n = 0 THEN <<>>
    ELSE ExpectedCalls(n - 1)
            \o (IF Documented(n)
                THEN << <<"explanation", n>>, <<"docstring", n>> >> ELSE <<>>)

\* C17: whatever calls fail, process_elements_for_docs issues, element after
\* element, the explanation call and then the docstring call of each element of
\* a documented kind, each once; it goes on while elements are left, and when
\* it returns it has issued two calls per documented element.
C17_TwoCallsPerElement ==
    /\ AnnotationCalls = ExpectedCalls(i - 1)
    /\ pc = "process" => ENABLED NextDocs
    /\ pc # "process" =>
          /\ i = Len(code_elements) + 1
          /\ Len(AnnotationCalls)
                = 2 * Cardinality({k \in 1..Len(code_elements) : Documented(k)})

\* C17 witness: the stage returned after two documented elements; the
\* explanation call of the first raised and its docstring call was issued all
\* the same.
C17_Witness ==
    /\ pc = "overview"
    /\ Len(code_elements) = 2
    /\ AnnotationCalls = << <<"explanation", 1>>, <<"docstring", 1>>,
                            <<"explanation", 2>>, <<"docstring", 2>> >>
    /\ ElementCalls("explanation", 1)[1][4]
    /\ ~ ElementCalls("docstring", 1)[1][4]

\* The leaves of an outline in traversal order, as <<title, kind>>: a section
\* that is not the parent is a leaf; the parent stands for its sub-sections,
\* in their stored order.
RECURSIVE Leaves(_)
Leaves(outline) ==
    IF outline = <<>> THEN <<>>
    ELSE LET s == Head(outline)
             own == IF s.section_type = "core_features_parent"
                    THEN (IF "sub_sections" \in DOMAIN s
                          THEN [k \in 1..Len(s.sub_sections) |->
                                   <<s.sub_sections[k].title,
                                     s.sub_sections[k].section_type>>]
                          ELSE <<>>)
                    ELSE << <<s.title, s.section_type>> >>
         IN  own \o Leaves(Tail(outline))

\* The sections the script calls issued so far were about, by the kind of
\* template their prompt was built from.
ScriptCallTemplates ==
    LET calls == StageCalls("script")
    IN  [k \in 1..Len(calls) |-> calls[k][3].template]

\* C18: the parts are the leaves of the outline in traversal order, each with
\* the title and the kind of its leaf; one call is issued per leaf and none is
\* about the parent.
C18_PartsInTraversalOrder ==
    LET leaves == Leaves(tutorial_outline_structure)
        parts == [k \in 1..Len(full_script_parts) |->
                     <<full_script_parts[k].title, full_script_parts[k].type>>]
    IN  /\ Len(parts) <= Len(leaves)
        /\ parts = SubSeq(leaves, 1, Len(parts))
        /\ Len(StageCalls("script")) = Len(parts)
        /\ \A k \in 1..Len(parts) :
              ScriptCallTemplates[k] =
                  (IF parts[k][2] \in {"introduction", "setup", "core_feature_detail",
                                       "conclusion"}
                   THEN parts[k][2] ELSE "generic")
        /\ pc = "save_script" => parts = leaves

\* C18 witness: the script of an outline whose first section is a parent with
\* the sub-sections f and C.m and whose second is the introduction was
\* returned: three parts, three calls, the sub-sections first.
C18_Witness ==
    /\ pc = "save_script"
    /\ Len(tutorial_outline_structure) = 2
    /\ tutorial_outline_structure[1].section_type = "core_features_parent"
    /\ [k \in 1..Len(full_script_parts) |-> full_script_parts[k].title]
           = <<"Function: f", "Method: C.m", "Welcome to projA">>
    /\ ScriptCallTemplates
           = <<"core_feature_detail", "core_feature_detail", "introduction">>

\* Whether an element carries an explanation: one that is neither None nor
\* the empty text.
Explained(el) == Get(el, "explanation") \notin {None, Some(<<>>)}

\* The first SummaryChars characters of a text.
Truncated(t) == IF Len(t) > SummaryChars THEN SubSeq(t, 1, SummaryChars) ELSE t

\* The bullets the claim states, as <<name, text>> in element order: one per
\* element that carries an explanation, with the explanation truncated.
RECURSIVE BulletsOfExplained(_)
BulletsOfExplained(elements) ==
    IF elements = <<>> THEN <<>>
    ELSE (IF Explained(Head(elements))
          THEN << <<Head(elements).name, Some(Truncated(Head(elements).explanation[1]))>> >>
          ELSE <<>>)
         \o BulletsOfExplained(Tail(elements))

\* The bullets with, in addition, one bullet that carries only the name for
\* each class without an explanation.
RECURSIVE BulletsWithClasses(_)
BulletsWithClasses(elements) ==
    IF elements = <<>> THEN <<>>
    ELSE (IF Explained(Head(elements))
          THEN << <<Head(elements).name, Some(Truncated(Head(elements).explanation[1]))>> >>
          ELSE IF Head(elements).type = "class"
          THEN << <<Head(elements).name, None>> >>
          ELSE <<>>)
         \o BulletsWithClasses(Tail(elements))

\* The first MaxSummaries entries of a bullet list.
Kept(bullets) ==
    IF Len(bullets) > MaxSummaries THEN SubSeq(bullets, 1, MaxSummaries) ELSE bullets

\* The bullets of the prompt of the k-th overview call, as <<name, text>>.
PromptBullets(k) ==
    LET summaries == StageCalls("overview")[k][3]
    IN  [n \in 1..Len(summaries) |-> <<summaries[n].name, summaries[n].text>>]

\* C19 as stated: the prompt has a bullet for each element that carries an
\* explanation and for no other element; one call is issued when there is a
\* bullet, and never more than one.
C19_BulletsOfExplainedOnly ==
    pc = "save" =>
        LET bullets == BulletsOfExplained(documented_elements)
            calls == StageCalls("overview")
        IN  /\ Len(calls) <= 1
            /\ bullets # <<>> <=> Len(calls) = 1
            /\ Len(calls) = 1 => PromptBullets(1) = Kept(bullets)

\* C19 as the code has it: a class without an explanation has a bullet too,
\* which carries its name only; the bullets are in element order, the first
\* MaxSummaries of them are kept, each explanation is cut to SummaryChars
\* characters, and one call is issued exactly when there is a bullet.
C19_BulletsWithClassNames ==
    pc = "save" =>
        LET bullets == BulletsWithClasses(documented_elements)
            calls == StageCalls("overview")
        IN  /\ Len(calls) <= 1
            /\ bullets # <<>> <=> Len(calls) = 1
            /\ Len(calls) = 1 => PromptBullets(1) = Kept(bullets)

\* C19 witness: the overview of more than MaxSummaries bullets was asked for,
\* among elements of which some carry no explanation and some are classes
\* without one; the explanations are longer than SummaryChars; the prompt has
\* MaxSummaries bullets, the first with SummaryChars characters of explanation,
\* the second with a class name only.
C19_Witness ==
    /\ pc = "save"
    /\ Len(BulletsWithClasses(documented_elements)) > MaxSummaries
    /\ Len(BulletsWithClasses(documented_elements)) < Len(documented_elements)
    /\ Len(documented_elements[1].explanation[1]) > SummaryChars
    /\ Len(StageCalls("overview")) = 1
    /\ Len(PromptBullets(1)) = MaxSummaries
    /\ Len(PromptBullets(1)[1][2][1]) = SummaryChars
    /\ PromptBullets(1)[2][2] = None

\* What the checkpoint file of this run's project holds: its elements, or
\* nothing when the file is absent or cannot be parsed.
CheckpointContent ==
    IF fs[CheckpointPath(project_name)].kind = "json" THEN CheckpointElements ELSE <<>>

\* The core feature details of the outline that was built.
OutlineDetails ==
    {s \in UNION {{SubSections(tutorial_outline_structure[k])[n] :
                      n \in 1..Len(SubSections(tutorial_outline_structure[k]))} :
                  k \in 1..Len(tutorial_outline_structure)} :
        s.section_type = "core_feature_detail"}

\* The detail was made from this element.
DetailOf(s, el) ==
    /\ s.element_name = el.name
    /\ s.element_type = el.type
    /\ s.element_class_name = el.class_name
    /\ s.file_path = el.file_path
    /\ s.code_snippet = el.code
    /\ s.explanation = el.explanation

\* C20: steps 4 and 5 work on the collection loaded from the checkpoint file
\* and on nothing else.  The collection step 4 holds is what the file holds;
\* every core feature detail of the outline was made from one of its elements;
\* and when it is empty no outline is built and no script call is issued,
\* whatever the annotated collection in memory holds.
C20_OnlyReloadedData ==
    AfterLoad =>
        /\ loaded_data_for_tutorial = CheckpointContent
        /\ \A s \in OutlineDetails :
              \E k \in 1..Len(loaded_data_for_tutorial) :
                  DetailOf(s, loaded_data_for_tutorial[k])
        /\ loaded_data_for_tutorial = <<>> =>
              /\ ~ outline_built
              /\ tutorial_outline_structure = <<>>
              /\ StageCalls("script") = <<>>
              /\ full_script_parts = <<>>

\* C20 witness: the run ended without an outline after the write of the
\* checkpoint failed, while the collection in memory holds an explained element.
C20_Witness ==
    /\ pc = "done"
    /\ save_outcome = "write_failed"
    /\ \E k \in 1..Len(documented_elements) : Explained(documented_elements[k])
    /\ loaded_data_for_tutorial = <<>>
    /\ ~ outline_built
    /\ StageCalls("script") = <<>>

\* The outline was built in a run whose annotation and overview stage did not
\* execute, while the output directory holds the overview file of an earlier
\* run.
ResumedWithOverview ==
    /\ NothingExtracted
    /\ StageCalls("explanation") = <<>>
    /\ StageCalls("overview") = <<>>
    /\ outline_built
    /\ tutorial_outline_structure # <<>>
    /\ fs[ReadmePath].kind = "text"

C22_OtherProjectsArtifactsKept ==
    [][\A q \in Projects \ {project_name} :
          /\ fs'[CheckpointPath(q)] = fs[CheckpointPath(q)]
          /\ fs'[ScriptPath(q)] = fs[ScriptPath(q)]
          /\ (fs[ReadmePath].kind = "text" /\ fs[ReadmePath].text.heading = q)
                => fs'[ReadmePath] = fs[ReadmePath]]_vars

\* The part of C22 about the checkpoint and the script file alone.
OtherProjectsFilesKept ==
    [][\A q \in Projects \ {project_name} :
          /\ fs'[CheckpointPath(q)] = fs[CheckpointPath(q)]
          /\ fs'[ScriptPath(q)] = fs[ScriptPath(q)]]_vars
-----------------------------------------------------------------------------
(* C23: the elements a stage is given are the elements it leaves               *)

\* The fields the parser gave an element.
ParsedFields ==
    {"file_path", "name", "type", "code", "start_line", "end_line", "class_name"}

\* after is before, element by element and in the same order, but for the two
\* fields of the annotation.
SameButAnnotation(before, after) ==
    /\ Len(after) = Len(before)
    /\ \A k \in 1..Len(before) :
         /\ DOMAIN after[k] \subseteq DOMAIN before[k] \cup {"explanation", "docstring"}
         /\ \A key \in DOMAIN before[k] \ {"explanation", "docstring"} :
              /\ key \in DOMAIN after[k]
              /\ after[k][key] = before[k][key]

\* C23: whatever calls fail, every step of process_elements_for_docs leaves the
\* list with the same length and order and changes no field of an element but
\* its explanation and its docstring, what it returns is that list, and
\* build_tutorial_outline leaves the list it reads as it was.
C23_ElementsKept ==
    [][/\ pc = "process" =>
            /\ SameButAnnotation(code_elements, code_elements')
            /\ pc' # "process" => documented_elements' = code_elements
       /\ pc = "build" => loaded_data_for_tutorial' = loaded_data_for_tutorial]_vars

\* process_elements_for_docs returned a list of an element of a kind it does not
\* document and a method whose explanation call failed: both are in their
\* places with the fields the parser gave them.
C23_Witness ==
    /\ pc = "overview"
    /\ Len(documented_elements) = 2
    /\ \A k \in 1..2 : ParsedFields \cup {"explanation", "docstring"}
                          = DOMAIN documented_elements[k]
    /\ [key \in ParsedFields |-> documented_elements[1][key]] = ElemV
    /\ [key \in ParsedFields |-> documented_elements[2][key]] = ElemM
    /\ documented_elements[2].explanation = None
    /\ documented_elements[2].docstring # None
    /\ ElementCalls("explanation", 2) # <<>>
    /\ \A j \in 1..Len(ElementCalls("explanation", 2)) :
         ~Succeeded(ElementCalls("explanation", 2)[j])

-----------------------------------------------------------------------------
(* C24: the kind of an element and its owning class                            *)

\* A method has an owning class, a function or a class has none.
KindOwner(el) ==
    /\ el.type \in {"method", "async method"} =>
         /\ el.class_name # None
         /\ el.class_name[1] # ""
    /\ el.type \in {"function", "async function", "class"} => el.class_name = None

AllKindOwner(elements) == \A k \in 1..Len(elements) : KindOwner(elements[k])

\* C24: every element extract_code_elements_from_file gives has an owning class
\* if it is a method or an async method and none if it is a function, an async
\* function or a class, and so has every element after the annotation and after
\* the checkpoint was written and read back.
C24_KindOwnerKept ==
    /\ AllKindOwner(code_elements)
    /\ AllKindOwner(documented_elements)
    /\ AllKindOwner(loaded_data_for_tutorial)
    /\ \A python_files \in SourceFiles : \A n \in 1..Len(python_files) :
         AllKindOwner(extract_code_elements_from_file(python_files[n]))

\* A class and its async method were extracted, annotated, written to the
\* checkpoint and read back: the class has no owner and the method has the class.
C24_Witness ==
    /\ pc = "done"
    /\ save_outcome = "saved"
    /\ StageCalls("explanation") # <<>>
    /\ Len(code_elements) = 2
    /\ Len(loaded_data_for_tutorial) = 2
    /\ documented_elements = code_elements
    /\ loaded_data_for_tutorial = documented_elements
    /\ loaded_data_for_tutorial[1].type = "class"
    /\ loaded_data_for_tutorial[1].class_name = None
    /\ loaded_data_for_tutorial[2].type = "async method"
    /\ loaded_data_for_tutorial[2].class_name = Some("D")
    /\ "explanation" \in DOMAIN loaded_data_for_tutorial[2]

====
